---- MODULE Spec2Model ----
(***************************************************************************)
(* State synchronization core of the react-basics demo application.        *)
(*                                                                         *)
(* This part models the list screen (src/src/pages/TodoList.tsx): the      *)
(* two useState cells `todoList` and `newTodo`, the three handlers         *)
(* addTodo / toggleTodo / deleteTodo, the controlled text input, and the   *)
(* render of the list.                                                     *)
(*                                                                         *)
(* Objects live in a heap so that identity (the reference a cell holds)    *)
(* and content (what the object behind the reference holds) are separate:  *)
(* the handlers of the source write through the reference they hold and    *)
(* hand the same reference back to setTodos.                               *)
(*                                                                         *)
(* A JavaScript object is a sequence of entries in own-property order.      *)
(* The keys are Date.now() readings, far above the array-index range, so   *)
(* own-property order is creation order of the key.  A value is an         *)
(* option: Undefined, or Def(t) for a Todo record t.                       *)
(*                                                                         *)
(* Strings are sequences of characters, so that trim() is computed.        *)
(*                                                                         *)
(* The profile screen (UserProfile: src/unnamed/part_000) is the second    *)
(* part: the three useState cells `user`, `loading` and `error`, the       *)
(* effect that runs fetchUser once per mount, the requests in flight, and  *)
(* the Try Again button.  Its cells belong to one mounted instance of the  *)
(* component; a request carries the instance whose setters it closes over. *)
(*                                                                         *)
(* The counter screen (src/src/pages/Counter.tsx) is the third part: the   *)
(* two useState cells `count` and `step`, the handlers increment,          *)
(* decrement, reset and handleStepChange, and the re-render that follows   *)
(* every handler and hands the handlers of the next event the values of    *)
(* the cells they close over.  A JavaScript number                         *)
(* is held as a whole number of halves, so that a fractional step such as  *)
(* 0.5 is a value of the model; NaN is a value of its own.                 *)
(*                                                                         *)
(* The router mounts one screen at a time: each specification drives one   *)
(* screen and leaves the variables of the others at their initial values.  *)
(***************************************************************************)
EXTENDS Integers, Sequences, FiniteSets

\* ---------------------------------------------------------------- bounds
\* Longest text typed into the input.
MaxLen == 2
\* Last clock reading (milliseconds after the screen was mounted).
MaxNow == 1
\* Most successful creates in one run.
MaxCreates == 2
\* Most instances of the profile screen mounted in one run.
MaxMounts == 3
\* Most keys of a store the list screen starts from.
MaxKeys == 3
\* Most calls of the counter's handlers in one run.
MaxCalls == 4
\* Largest number typed into the step input, in halves.
MaxStepInput == 2

VARIABLES
    heap,       \* reference -> object: the objects allocated so far
    todoList,   \* the reference held by the todoList cell (useState, line 14)
    newTodo,    \* the string held by the newTodo cell (useState, line 15)
    now,        \* the clock read by Date.now()
    rendered,   \* what the last committed render put on the screen
    fault,      \* how the last handler ended: "none", "handler" (it threw),
                \* "render" (the render after it threw)
    assigned,   \* log: the ids given out by the successful creates, in order
    nDeleted,   \* log: number of deletes whose record was present
    lastOp      \* log: the last handler of the list screen that ran
                \* ("deleteAbsent": deleteTodo on an id without a record)

todoVars == <<heap, todoList, newTodo, now, rendered, fault, assigned, nDeleted, lastOp>>

VARIABLES
    user,           \* the user cell (useState, line 17): Null or a payload
    loading,        \* the loading cell (useState, line 18)
    error,          \* the error cell (useState, line 19): Null or a message
    mounted,        \* the profile screen is mounted
    inst,           \* the mounted instance of the component (1, 2, ...)
    effectPending,  \* the mount's effect (lines 21-39) has not run yet
    inflight,       \* the requests axios.get has issued and not settled
    calls,          \* log: number of requests issued
    starts,         \* log: number of runs of fetchUser
    lastEvent,      \* log: the last thing that happened to the screen
    cont            \* where the continuation of fetchUser stands when its
                    \* writes are committed one by one: "none", or the
                    \* line of the write that comes next

profileVars == <<user, loading, error, mounted, inst, effectPending, inflight,
                 calls, starts, lastEvent, cont>>

VARIABLES
    count,      \* the count cell (useState, line 4), in halves
    step,       \* the step cell (useState, line 5), in halves
    shown,      \* the values of the cells at the last render: what is on
                \* the screen and what the handlers of lines 7-8 close over
    expected,   \* log: the count if every increment had added, and every
                \* decrement taken off, the step held when it was issued
    nCalls,     \* log: number of handler calls
    lastCall    \* log: the last handler of the counter that was called

counterVars == <<count, step, shown, expected, nCalls, lastCall>>

vars == <<todoVars, profileVars, counterVars>>

\* --------------------------------------------------------------- strings
Chars == {"a", " "}

IsSpace(c) == c = " "

RECURSIVE TrimStart(_)
TrimStart(s) ==
    IF Len(s) > 0 /\ IsSpace(Head(s)) THEN TrimStart(Tail(s)) ELSE s

RECURSIVE TrimEnd(_)
TrimEnd(s) ==
    IF Len(s) > 0 /\ IsSpace(s[Len(s)])
    THEN TrimEnd(SubSeq(s, 1, Len(s) - 1))
    ELSE s

\* A trim that strips nothing.
TrimNothing(s) == s

\* String.prototype.trim
Trim(s) == TrimEnd(TrimStart(s))

\* --------------------------------------------------------------- objects
\* The value `undefined`, and a present Todo.
Undefined == {}
Def(t) == {t}
TheTodo(v) == CHOOSE t \in v : TRUE

\* A Todo literal (lines 22-26).
Todo(id, text, completed) == [id |-> id, text |-> text, completed |-> completed]

\* The object literal {} (line 14).
EmptyObject == <<>>

Keys(o) == {o[i].key : i \in 1..Len(o)}

IndexOf(o, k) == CHOOSE i \in 1..Len(o) : o[i].key = k

\* o[k]: a property read; a missing key reads as undefined.
Get(o, k) == IF k \in Keys(o) THEN o[IndexOf(o, k)].value ELSE Undefined

\* o[k] = v: a property write; an existing key keeps its place, a new key
\* goes last.
Put(o, k, v) ==
    IF k \in Keys(o)
    THEN [o EXCEPT ![IndexOf(o, k)] = [key |-> k, value |-> v]]
    ELSE Append(o, [key |-> k, value |-> v])

\* Object.values(o): the values of the own keys, in key order.
ObjectValues(o) == [i \in 1..Len(o) |-> o[i].value]

\* Object.is on two cell values.
ObjectIs(a, b) == a = b

\* An add that stores the text as it was typed.
AddEntryUntrimmed(o, newId, text) == Put(o, newId, Def(Todo(newId, text, FALSE)))

\* A toggle that sets the flag instead of flipping it.
ToggleCompletedStuck(t) == [t EXCEPT !.completed = TRUE]

\* The flip of line 33: !todoList[id].completed.
ToggleCompleted(t) == [t EXCEPT !.completed = ~t.completed]

\* A toggle that flips the flag of every record of the store.
ToggleEntryAll(o, id) ==
    [i \in 1..Len(o) |->
        IF o[i].value = Undefined THEN o[i]
        ELSE [key |-> o[i].key, value |-> Def(ToggleCompleted(TheTodo(o[i].value)))]]

\* The store after toggleTodo's write (line 33), for a present record.
ToggleEntry(o, id) == Put(o, id, Def(ToggleCompleted(TheTodo(Get(o, id)))))

\* A delete that removes the key before it writes undefined under it:
\* the key moves to the end of the store.
DeleteEntryMovesKey(o, id) ==
    Append(SelectSeq(o, LAMBDA e : e.key # id), [key |-> id, value |-> Undefined])

\* The store after deleteTodo's write (line 38).
DeleteEntry(o, id) == Put(o, id, Undefined)

\* The store after addTodo's write (lines 22-26).
AddEntry(o, newId, text) == Put(o, newId, Def(Todo(newId, Trim(text), FALSE)))

\* ---------------------------------------------------------------- render
\* The list of lines 65-92 reads todo.id, todo.completed and todo.text of
\* every value: an undefined value makes the render throw a TypeError.
RenderThrows(o) == \E i \in 1..Len(o) : ObjectValues(o)[i] = Undefined

\* What a render that does not throw shows: one item per value, the
\* placeholder of lines 95-97, and the input's value (line 50).
View(o, input) ==
    [items       |-> [i \in 1..Len(o) |-> TheTodo(ObjectValues(o)[i])],
     placeholder |-> Len(ObjectValues(o)) = 0,
     input       |-> input]

\* Nothing is on the screen once a render has thrown: the tree is unmounted.
Blank == [items |-> <<>>, placeholder |-> FALSE, input |-> <<>>]

\* The ids whose checkbox and Delete button are on the screen (lines 74, 86).
RenderedIds == {rendered.items[i].id : i \in 1..Len(rendered.items)}

\* The screen is still mounted.
Mounted == fault # "render"

\* The rendering layer after a handler has run.  A cell whose new value is
\* not Object.is-equal to its old one schedules a re-render, which runs the
\* component and commits what it returns.  When every cell was handed the
\* value it already held the re-render is skipped; the rendering layer may
\* still run the component once and drop its output (callsComponent), and
\* an exception thrown by that run is not dropped.
AfterHandler(callsComponent, handlerFault) ==
    LET changed == ~ObjectIs(todoList', todoList) \/ ~ObjectIs(newTodo', newTodo)
        o == heap'[todoList']
    IN  IF (changed \/ callsComponent) /\ RenderThrows(o)
        THEN /\ fault' = "render"
             /\ rendered' = Blank
        ELSE /\ fault' = IF handlerFault THEN "handler" ELSE "none"
             /\ rendered' = IF changed THEN View(o, newTodo') ELSE rendered

\* ------------------------------------------------------- profile screen
\* The value null, the record the data source returns for the fixed key
\* (users/1, lines 25-27), and the message of line 31.
Null == {}
UserRecord == [id |-> 1, name |-> "Leanne Graham"]
ErrorMessage == "Failed to fetch user data"

\* The three cells as one record, and their values at mount (lines 17-19).
Cells == [user |-> user, loading |-> loading, error |-> error]
InitialCells == [user |-> Null, loading |-> TRUE, error |-> Null]

\* A fulfilled handler that forgets the payload.
OnFulfilledDropsData(c, data) == [c EXCEPT !.error = Null]

\* The rest of the try block after the await (lines 28-29).
OnFulfilled(c, data) == [c EXCEPT !.user = Def(data), !.error = Null]

\* A catch block that swallows the failure.
OnRejectedSwallows(c) == c

\* The catch block (line 31).
OnRejected(c) == [c EXCEPT !.error = Def(ErrorMessage)]

\* A completion without the finally block.
FinallySkipped(c) == c

\* The finally block (line 34).
Finally(c) == [c EXCEPT !.loading = FALSE]

\* A retry that runs fetchUser again on the cells as they are.
RetryInPlace(c) == [c EXCEPT !.loading = TRUE]

\* window.location.reload() (line 55): the page is loaded again and the
\* component is mounted anew, with the cells of lines 17-19.
Reloaded(c) == InitialCells

\* Two requests for one run of fetchUser.
NewRequestsTwice(n, g) == {[id |-> n + 1, gen |-> g], [id |-> n + 2, gen |-> g]}

\* The requests one run of fetchUser issues (line 25), after n earlier ones.
NewRequests(n, g) == {[id |-> n + 1, gen |-> g]}

\* Setters that write whatever instance is mounted.
AppliesAlways(r) == mounted

\* The setters a request's continuation calls are those of the instance
\* that issued it (lines 17-19, 22): they write the cells only while that
\* instance is the mounted one.
Applies(r) == mounted /\ r.gen = inst

\* The status the screen shows (the guards of lines 41, 50 and 69).
StatusOf(c) ==
    IF c.loading THEN "loading"
    ELSE IF c.error # Null THEN "error"
    ELSE IF c.user # Null THEN "success"
    ELSE "idle"

Status == StatusOf(Cells)

WriteCells(c) ==
    /\ user' = c.user
    /\ loading' = c.loading
    /\ error' = c.error

\* The router mounts the profile screen.
MountProfile ==
    /\ ~mounted
    /\ inst < MaxMounts
    /\ mounted' = TRUE
    /\ inst' = inst + 1
    /\ WriteCells(InitialCells)
    /\ effectPending' = TRUE
    /\ lastEvent' = "mount"
    /\ UNCHANGED <<inflight, calls, starts>>
    /\ UNCHANGED cont
    /\ UNCHANGED todoVars
    /\ UNCHANGED counterVars

\* The effect of the mount runs fetchUser up to its await (lines 21-27, 38).
RunEffect ==
    /\ mounted
    /\ effectPending
    /\ WriteCells([Cells EXCEPT !.loading = TRUE])
    /\ inflight' = inflight \cup NewRequests(calls, inst)
    /\ calls' = calls + Cardinality(NewRequests(calls, inst))
    /\ starts' = starts + 1
    /\ effectPending' = FALSE
    /\ lastEvent' = "effect"
    /\ UNCHANGED <<mounted, inst>>
    /\ UNCHANGED cont
    /\ UNCHANGED todoVars
    /\ UNCHANGED counterVars

\* A request is fulfilled and the writes of its continuation (lines 28-29,
\* then the finally block) are committed together, as a rendering layer
\* that batches them does; SetUserWrite, ClearErrorWrite and
\* SetLoadingWrite are the same writes committed one by one.
Resolve(r) ==
    /\ r \in inflight
    /\ inflight' = inflight \ {r}
    /\ IF Applies(r)
       THEN WriteCells(Finally(OnFulfilled(Cells, UserRecord)))
       ELSE UNCHANGED <<user, loading, error>>
    /\ lastEvent' = "resolve"
    /\ UNCHANGED <<mounted, inst, effectPending, calls, starts>>
    /\ UNCHANGED cont
    /\ UNCHANGED todoVars
    /\ UNCHANGED counterVars

\* A request fails and the writes of its continuation (the catch block,
\* then the finally block) are committed together; SetErrorWrite and
\* SetLoadingWrite are the same writes committed one by one.
Reject(r) ==
    /\ r \in inflight
    /\ inflight' = inflight \ {r}
    /\ IF Applies(r)
       THEN WriteCells(Finally(OnRejected(Cells)))
       ELSE UNCHANGED <<user, loading, error>>
    /\ lastEvent' = "reject"
    /\ UNCHANGED <<mounted, inst, effectPending, calls, starts>>
    /\ UNCHANGED cont
    /\ UNCHANGED todoVars
    /\ UNCHANGED counterVars

\* The user follows a link to another screen: the profile is unmounted.
LeaveProfile ==
    /\ mounted
    /\ ~effectPending
    /\ mounted' = FALSE
    /\ lastEvent' = "leave"
    /\ UNCHANGED <<user, loading, error, inst, effectPending, inflight, calls, starts>>
    /\ UNCHANGED cont
    /\ UNCHANGED todoVars
    /\ UNCHANGED counterVars

\* The user clicks Try Again, which the error view offers (lines 50-61):
\* the page is reloaded, which drops the requests in flight.
Retry ==
    /\ mounted
    /\ ~loading
    /\ error # Null
    /\ inst < MaxMounts
    /\ WriteCells(Reloaded(Cells))
    /\ inst' = inst + 1
    /\ inflight' = {}
    /\ effectPending' = TRUE
    /\ lastEvent' = "retry"
    /\ UNCHANGED <<mounted, calls, starts>>
    /\ UNCHANGED cont
    /\ UNCHANGED todoVars
    /\ UNCHANGED counterVars

\* The writes of one completion, committed one by one: the rendering
\* layer does not batch the setter calls of a continuation that runs
\* outside an event handler, and renders after each of them.  Nothing else
\* runs until the continuation has reached its end.
\* setUser(response.data) (line 28).
SetUserWrite(r) ==
    /\ cont = "none"
    /\ r \in inflight
    /\ Applies(r)
    /\ inflight' = inflight \ {r}
    /\ user' = Def(UserRecord)
    /\ cont' = "line29"
    /\ lastEvent' = "resolve"
    /\ UNCHANGED <<loading, error, mounted, inst, effectPending, calls, starts>>
    /\ UNCHANGED <<todoVars, counterVars>>

\* setError('Failed to fetch user data') (line 31).
SetErrorWrite(r) ==
    /\ cont = "none"
    /\ r \in inflight
    /\ Applies(r)
    /\ inflight' = inflight \ {r}
    /\ error' = Def(ErrorMessage)
    /\ cont' = "line34"
    /\ lastEvent' = "reject"
    /\ UNCHANGED <<user, loading, mounted, inst, effectPending, calls, starts>>
    /\ UNCHANGED <<todoVars, counterVars>>

\* setError(null) (line 29), then the finally block.
ClearErrorWrite ==
    /\ cont = "line29"
    /\ error' = Null
    /\ cont' = "line34"
    /\ UNCHANGED <<user, loading, mounted, inst, effectPending, inflight,
                   calls, starts, lastEvent>>
    /\ UNCHANGED <<todoVars, counterVars>>

\* setLoading(false) (line 34): the end of the continuation.
SetLoadingWrite ==
    /\ cont = "line34"
    /\ loading' = FALSE
    /\ cont' = "none"
    /\ UNCHANGED <<user, error, mounted, inst, effectPending, inflight,
                   calls, starts, lastEvent>>
    /\ UNCHANGED <<todoVars, counterVars>>

\* A screen that shows the details whatever the loading cell holds.
ProfileViewLoadingIgnored(c) ==
    IF c.error # Null THEN [view |-> "error", fields |-> FALSE]
    ELSE [view |-> "details", fields |-> c.user # Null]

\* What the component returns (lines 41-84): the loading view, the error
\* view, or the details, whose fields are inside {user && ...} (line 69).
ProfileView(c) ==
    IF c.loading THEN [view |-> "loading", fields |-> FALSE]
    ELSE IF c.error # Null THEN [view |-> "error", fields |-> FALSE]
    ELSE [view |-> "details", fields |-> c.user # Null]

\* ------------------------------------------------------- counter screen
\* A number n of the source is held as 2n, a whole number of halves.
Num(n) == 2 * n

\* NaN, and a number that is one, as what an input can be (line 33).
NaN == {}
Number(h) == {h}
ValueOf(v) == CHOOSE h \in v : TRUE

\* value > 0 (line 19): false for NaN.
GreaterThanZero(v) == v # NaN /\ ValueOf(v) > 0

\* What the step input can hand to handleStepChange: Number(e.target.value).
StepInputs == {NaN} \cup {Number(h) : h \in (0 - MaxStepInput)..MaxStepInput}

\* A step check that lets zero through.
NextStepFromZero(value) ==
    IF value # NaN /\ ValueOf(value) >= 0 THEN ValueOf(value) ELSE Num(1)

\* value > 0 ? value : 1 (line 19).
NextStep(value) ==
    IF GreaterThanZero(value) THEN ValueOf(value) ELSE Num(1)

\* A reset that takes any call for a reset of everything.
ResetStepAlways(all, s) == Num(1)

\* if (all) setStep(1) (lines 13-14): the step after reset(all).
ResetStep(all, s) == IF all THEN Num(1) ELSE s

\* The values the cells hold at mount (lines 4-5).
InitialCount == Num(0)
InitialStep == Num(5)

\* The re-render that follows a handler (lines 3-8): the component runs
\* with the values the cells hold now, and the handlers it creates close
\* over them.  Every handler runs from one DOM event (lines 30-66), and
\* the re-render it schedules is committed before the next event.
Closure(cells, old) == cells

\* What increment hands to setCount (line 7): count + step, with the
\* count and the step of the render the handler belongs to.
IncrementWrites(closure) == closure.count + closure.step

\* What decrement hands to setCount (line 8): count - step.
DecrementWrites(closure) == closure.count - closure.step

\* increment() (line 7): setCount(count + step); then the re-render.
Increment ==
    /\ nCalls < MaxCalls
    /\ count' = IncrementWrites(shown)
    /\ expected' = expected + step
    /\ nCalls' = nCalls + 1
    /\ lastCall' = [op |-> "increment", value |-> NaN]
    /\ UNCHANGED step
    /\ UNCHANGED <<todoVars, profileVars>>
    /\ shown' = Closure([count |-> count', step |-> step'], shown)

\* decrement() (line 8): setCount(count - step); then the re-render.
Decrement ==
    /\ nCalls < MaxCalls
    /\ count' = DecrementWrites(shown)
    /\ expected' = expected - step
    /\ nCalls' = nCalls + 1
    /\ lastCall' = [op |-> "decrement", value |-> NaN]
    /\ UNCHANGED step
    /\ UNCHANGED <<todoVars, profileVars>>
    /\ shown' = Closure([count |-> count', step |-> step'], shown)

\* reset(all) (lines 10-16); then the re-render.
Reset(all) ==
    /\ nCalls < MaxCalls
    /\ count' = Num(0)
    /\ step' = ResetStep(all, step)
    /\ expected' = Num(0)
    /\ nCalls' = nCalls + 1
    /\ lastCall' = [op |-> IF all THEN "resetAll" ELSE "reset", value |-> NaN]
    /\ UNCHANGED <<todoVars, profileVars>>
    /\ shown' = Closure([count |-> count', step |-> step'], shown)

\* handleStepChange(value) (lines 18-20, called from line 33); then the
\* re-render.
HandleStepChange(value) ==
    /\ nCalls < MaxCalls
    /\ step' = NextStep(value)
    /\ nCalls' = nCalls + 1
    /\ lastCall' = [op |-> "setStep", value |-> value]
    /\ UNCHANGED <<count, expected>>
    /\ UNCHANGED <<todoVars, profileVars>>
    /\ shown' = Closure([count |-> count', step |-> step'], shown)

\* --------------------------------------------------------------- actions
Init ==
    /\ mounted = TRUE
    /\ inst = 1
    /\ user = InitialCells.user
    /\ loading = InitialCells.loading
    /\ error = InitialCells.error
    /\ effectPending = TRUE
    /\ inflight = {}
    /\ calls = 0
    /\ starts = 0
    /\ lastEvent = "mount"
    /\ cont = "none"
    /\ heap = [r \in {1} |-> EmptyObject]
    /\ todoList = 1
    /\ newTodo = <<>>
    /\ now = 0
    /\ rendered = View(EmptyObject, <<>>)
    /\ fault = "none"
    /\ assigned = <<>>
    /\ nDeleted = 0
    /\ lastOp = "mount"
    /\ count = InitialCount
    /\ step = InitialStep
    /\ shown = [count |-> InitialCount, step |-> InitialStep]
    /\ expected = InitialCount
    /\ nCalls = 0
    /\ lastCall = [op |-> "mount", value |-> NaN]

\* The clock advances.
Tick ==
    /\ now < MaxNow
    /\ now' = now + 1
    /\ UNCHANGED <<heap, todoList, newTodo, rendered, fault, assigned, nDeleted, lastOp>>
    /\ UNCHANGED profileVars
    /\ UNCHANGED counterVars

\* The texts one keystroke away from s: a character typed at the end, or
\* the last character erased.
Edits(s) ==
    {Append(s, c) : c \in {d \in Chars : Len(s) < MaxLen}}
        \cup {SubSeq(s, 1, Len(s) - 1) : x \in {y \in {0} : Len(s) > 0}}

\* The user edits the text input (line 51): setNewTodo(e.target.value).
TypeText(s) ==
    /\ Mounted
    /\ s # newTodo
    /\ newTodo' = s
    /\ lastOp' = "type"
    /\ UNCHANGED profileVars
    /\ UNCHANGED counterVars
    /\ UNCHANGED <<heap, todoList, now, assigned, nDeleted>>
    /\ AfterHandler(FALSE, FALSE)

\* The user submits the form (lines 17-30).
AddTodo ==
    /\ Mounted
    /\ lastOp' = "add"
    /\ UNCHANGED profileVars
    /\ UNCHANGED counterVars
    /\ IF Trim(newTodo) = <<>>
       THEN /\ UNCHANGED <<heap, todoList, newTodo, now, assigned, nDeleted>>
            /\ AfterHandler(FALSE, FALSE)
       ELSE LET newId == now
            IN  /\ Len(assigned) < MaxCreates
                /\ heap' = [heap EXCEPT ![todoList] = AddEntry(@, newId, newTodo)]
                /\ todoList' = todoList
                /\ newTodo' = <<>>
                /\ assigned' = Append(assigned, newId)
                /\ UNCHANGED <<now, nDeleted>>
                /\ AfterHandler(FALSE, FALSE)

\* toggleTodo(id) (lines 32-35).  Reading .completed of undefined throws
\* before anything is written.
ToggleTodo(id) ==
    /\ Mounted
    /\ lastOp' = "toggle"
    /\ UNCHANGED profileVars
    /\ UNCHANGED counterVars
    /\ LET present == Get(heap[todoList], id) # Undefined
       IN  IF present
           THEN /\ heap' = [heap EXCEPT ![todoList] = ToggleEntry(@, id)]
                /\ todoList' = todoList
                /\ UNCHANGED <<newTodo, now, assigned, nDeleted>>
                /\ \E callsComponent \in BOOLEAN : AfterHandler(callsComponent, FALSE)
           ELSE /\ UNCHANGED <<heap, todoList, newTodo, now, assigned, nDeleted>>
                /\ AfterHandler(FALSE, TRUE)

\* deleteTodo(id) (lines 37-40).
DeleteTodo(id) ==
    /\ Mounted
    /\ UNCHANGED profileVars
    /\ UNCHANGED counterVars
    /\ LET present == Get(heap[todoList], id) # Undefined
       IN  /\ lastOp' = IF present THEN "delete" ELSE "deleteAbsent"
           /\ heap' = [heap EXCEPT ![todoList] = DeleteEntry(@, id)]
           /\ todoList' = todoList
           /\ nDeleted' = IF present THEN nDeleted + 1 ELSE nDeleted
           /\ UNCHANGED <<newTodo, now, assigned>>
           /\ \E callsComponent \in BOOLEAN : AfterHandler(callsComponent, FALSE)

\* The list screen as the user drives it: a checkbox or a Delete button
\* exists only for an item on the screen.
Next ==
    \/ Tick
    \/ \E s \in Edits(newTodo) : TypeText(s)
    \/ AddTodo
    \/ \E id \in RenderedIds : ToggleTodo(id)
    \/ \E id \in RenderedIds : DeleteTodo(id)

Spec == Init /\ [][Next]_vars

\* The list screen with records on it: the stores that creates with
\* distinct clock readings, toggles and a keystroke lead to, and on them
\* the checkbox and the Delete button of an item on the screen.
StoreKeys == 0..(MaxKeys - 1)

Strings == UNION {[1..n -> Chars] : n \in 0..MaxLen}

\* Texts addTodo stores (lines 19, 24): the trimmed, non-empty ones among
\* the texts of one character and of one character typed twice.
Texts == {Trim(s) : s \in {<<c>> : c \in Chars} \cup {<<c, c>> : c \in Chars}} \ {<<>>}

\* The k-th smallest key of S: keys are clock readings, so creation order
\* is ascending order.
KthKey(S, k) == CHOOSE x \in S : Cardinality({y \in S : y < x}) = k - 1

StoreWith(S, f) ==
    [i \in 1..Cardinality(S) |->
        [key   |-> KthKey(S, i),
         value |-> Def(Todo(KthKey(S, i), f[KthKey(S, i)][1], f[KthKey(S, i)][2]))]]

InitStore ==
    /\ mounted = TRUE
    /\ inst = 1
    /\ user = InitialCells.user
    /\ loading = InitialCells.loading
    /\ error = InitialCells.error
    /\ effectPending = TRUE
    /\ inflight = {}
    /\ calls = 0
    /\ starts = 0
    /\ lastEvent = "mount"
    /\ cont = "none"
    /\ count = InitialCount
    /\ step = InitialStep
    /\ shown = [count |-> InitialCount, step |-> InitialStep]
    /\ expected = InitialCount
    /\ nCalls = 0
    /\ lastCall = [op |-> "mount", value |-> NaN]
    /\ \E S \in SUBSET StoreKeys :
         \E f \in [S -> Texts \X BOOLEAN] :
            /\ heap = [r \in {1} |-> StoreWith(S, f)]
            /\ rendered = View(StoreWith(S, f), <<>>)
            /\ assigned = [i \in 1..Cardinality(S) |-> KthKey(S, i)]
            /\ now = IF S = {} THEN 0 ELSE KthKey(S, Cardinality(S))
            /\ lastOp = IF S = {} THEN "mount" ELSE "type"
    /\ todoList = 1
    /\ newTodo = <<>>
    /\ fault = "none"
    /\ nDeleted = 0

NextStore ==
    \/ \E id \in RenderedIds : ToggleTodo(id)
    \/ \E id \in RenderedIds : DeleteTodo(id)

SpecStore == InitStore /\ [][NextStore]_vars

\* The profile screen.
NextProfile ==
    \/ MountProfile
    \/ RunEffect
    \/ \E r \in inflight : Resolve(r)
    \/ \E r \in inflight : Reject(r)
    \/ LeaveProfile
    \/ Retry

SpecProfile == Init /\ [][NextProfile]_vars

\* The profile screen under a rendering layer that may or may not batch
\* the writes of a completion.
NextProfileWrites ==
    \/ cont = "none" /\ NextProfile
    \/ \E r \in inflight : SetUserWrite(r)
    \/ \E r \in inflight : SetErrorWrite(r)
    \/ ClearErrorWrite
    \/ SetLoadingWrite

SpecProfileWrites == Init /\ [][NextProfileWrites]_vars

\* The counter screen as the user drives it: one handler per event.
NextCounter ==
    \/ Increment
    \/ Decrement
    \/ \E all \in BOOLEAN : Reset(all)
    \/ \E value \in StepInputs : HandleStepChange(value)

SpecCounter == Init /\ [][NextCounter]_vars

\* ---------------------------------------------------------------- claims
\* The store held by the todoList cell, and the records it holds: the
\* values that are not undefined, in key order.
Store == heap[todoList]

RECURSIVE RecordsOf(_)
RecordsOf(o) ==
    IF Len(o) = 0 THEN <<>>
    ELSE IF Head(o).value = Undefined THEN RecordsOf(Tail(o))
    ELSE <<TheTodo(Head(o).value)>> \o RecordsOf(Tail(o))

\* C1: every step that changes the content of the store publishes, through
\* setTodos, a reference distinct from the one the cell held before.
C1_PublishesNewIdentity ==
    [][heap'[todoList'] # heap[todoList] => todoList' # todoList]_vars

\* C2: copy-on-write: the object behind the reference held before a step
\* has the same keys and the same records after the step.
C2_OldIdentityUnchanged ==
    [][heap'[todoList] = heap[todoList]]_vars

\* C3: no missed re-render: once a handler has ended without a fault, the
\* list on the screen shows exactly the records of the store, with their
\* completed flags.
C3_ScreenShowsStore ==
    fault = "none" => rendered.items = RecordsOf(Store)

\* C4: the ids given out by the successful creates are pairwise distinct.
C4_IdsPairwiseDistinct ==
    \A i, j \in 1..Len(assigned) : i # j => assigned[i] # assigned[j]

\* C5: no tombstones: no key of the store is mapped to undefined, so the
\* list iteration yields no undefined entry and no entry of a deleted key.
C5_NoTombstones ==
    \A i \in 1..Len(Store) : ObjectValues(Store)[i] # Undefined

\* C6: count law: the number of entries the store lists is the number of
\* successful creates minus the number of deletes of a present record.
C6_CountLaw ==
    Len(ObjectValues(Store)) = Len(assigned) - nDeleted

\* C7: toggle is an involution: in every reachable store, toggling a
\* present id twice gives back the same store.
C7_ToggleInvolution ==
    \A k \in Keys(Store) :
        Get(Store, k) # Undefined =>
            /\ ToggleEntry(Store, k) # Store
            /\ ToggleEntry(ToggleEntry(Store, k), k) = Store

\* C7 witness: a toggle has acted: the store holds a completed record next
\* to which the screen still offers the checkbox.
C7_Witness ==
    \E k \in RenderedIds :
        /\ Get(Store, k) # Undefined
        /\ TheTodo(Get(Store, k)).completed

\* C8: toggleTodo on an id that has no record ends without an exception
\* and leaves the store unchanged.
C8_ToggleAbsentIsNoOp ==
    [][\A id \in RenderedIds :
          (Get(Store, id) = Undefined /\ ToggleTodo(id))
              => (fault' = "none" /\ heap' = heap)]_vars

\* C9: no render after an add, toggle or delete throws.
C9_RenderNeverThrows ==
    fault # "render"

\* C10: deleteTodo on an id the store holds no record for leaves the
\* store as it is: the same keys in the same order, the same records, and
\* no key added.
C10_DeleteAbsentIsNoOp ==
    [][\A id \in RenderedIds :
          (Get(Store, id) = Undefined /\ DeleteTodo(id))
              => /\ heap'[todoList'] = heap[todoList]
                 /\ Keys(heap'[todoList']) = Keys(Store)
                 /\ RecordsOf(heap'[todoList']) = RecordsOf(Store)]_vars

\* C10 witness: Delete has been clicked on an item whose record was
\* already deleted, in a store that holds another record after it.
C10_Witness ==
    /\ lastOp = "deleteAbsent"
    /\ Len(Store) > 1
    /\ Store[1].value = Undefined
    /\ Len(RecordsOf(Store)) > 0

\* A text that is empty once trimmed: it holds nothing but whitespace.
AllSpace(s) == \A i \in 1..Len(s) : s[i] = " "

\* C11: a submit whose text is empty once trimmed is a silent no-op: the
\* store keeps its keys and records, no id is given out, the input and the
\* screen stay as they are and the handler ends without a fault.  (A step
\* that ends with lastOp = "add" and leaves the clock alone is a run of
\* addTodo.)
C11_EmptyCreateIsNoOp ==
    [][(lastOp' = "add" /\ now' = now /\ AllSpace(newTodo))
          => /\ heap' = heap
             /\ todoList' = todoList
             /\ assigned' = assigned
             /\ newTodo' = newTodo
             /\ rendered' = rendered
             /\ fault' = "none"]_vars

\* C11 witness: a submit of a whitespace-only text has just been
\* rejected, on a list that already holds a record.
C11_Witness ==
    /\ lastOp = "add"
    /\ Len(newTodo) > 0
    /\ AllSpace(newTodo)
    /\ Len(RecordsOf(Store)) > 0

\* C12: a submit whose trimmed text is not empty adds exactly one record,
\* {a fresh id, the trimmed text, completed false}, and the list is the
\* list before it with the new record last.
C12_CreateAppendsFreshRecord ==
    [][(lastOp' = "add" /\ ~AllSpace(newTodo) /\ newTodo' = <<>>)
          => /\ now \notin Keys(Store)
             /\ RecordsOf(heap'[todoList'])
                  = Append(RecordsOf(Store), Todo(now, Trim(newTodo), FALSE))]_vars

\* ------------------------------------------------- claims: profile screen
\* A step in which a request of the mounted instance settles while its
\* Resource is loading.
OwnSettle ==
    /\ mounted /\ mounted'
    /\ inst' = inst
    /\ loading
    /\ \E r \in inflight : r \notin inflight' /\ r.gen = inst

\* A step in which a request settles against a Resource that is not
\* loading, or whose screen is unmounted.
LateSettle ==
    /\ mounted' = mounted
    /\ inst' = inst
    /\ inflight' # inflight
    /\ ~mounted \/ ~loading

\* C13: in every state, the states between the writes of a completion
\* included, payload and error message are populated only in their
\* terminal status: none of them while idle or loading, the payload alone
\* in success, the message alone in error.
C13_PopulatedOnlyWhenTerminal ==
    /\ Status \in {"idle", "loading"} => (user = Null /\ error = Null)
    /\ Status = "success" => (user # Null /\ error = Null)
    /\ Status = "error" => (user = Null /\ error # Null)

\* C14: lifecycle ordering: the Resource enters success or error only
\* from loading.
C14_TerminalOnlyFromLoading ==
    [][(Status' \in {"success", "error"} /\ Status' # Status)
          => Status = "loading"]_vars

\* C14 witness: the Resource has reached success.
C14_Witness ==
    /\ Status = "success"
    /\ lastEvent = "resolve"

\* C15: a resolve or reject that arrives when the Resource is not
\* loading, or after the screen was unmounted, changes none of status,
\* payload and error message.
C15_LateSettleIgnored ==
    [][LateSettle => (user' = user /\ loading' = loading /\ error' = error)]_vars

\* C15 witness: a resolve has just arrived at a Resource that is in
\* error: the response of an abandoned attempt.
C15_Witness ==
    /\ mounted
    /\ Status = "error"
    /\ lastEvent = "resolve"

\* C16: when the call of a loading Resource settles, the Resource leaves
\* loading for success or error; when it fails, for error with a
\* non-empty message.
C16_FailureRecovered ==
    [][OwnSettle
          => /\ ~loading'
             /\ StatusOf([user |-> user', loading |-> loading', error |-> error'])
                    \in {"success", "error"}
             /\ lastEvent' = "reject"
                    => /\ error' # Null
                       /\ "" \notin error'
                       /\ StatusOf([user |-> user', loading |-> loading',
                                    error |-> error']) = "error"]_vars

\* C16 witness: a failed call has been recovered into error and the
\* screen offers Try Again.
C16_Witness ==
    /\ mounted
    /\ lastEvent = "reject"
    /\ ~loading
    /\ error = Def(ErrorMessage)

\* C17: a reject in loading moves the Resource to error, stores the
\* message, and leaves the payload absent.
C17_RejectStoresMessage ==
    [][(OwnSettle /\ lastEvent' = "reject")
          => /\ ~loading'
             /\ error' = Def(ErrorMessage)
             /\ user' = Null]_vars

\* C17 witness: the first attempt of a screen has been rejected.
C17_Witness ==
    /\ mounted
    /\ lastEvent = "reject"
    /\ Status = "error"
    /\ user = Null
    /\ inflight = {}

\* C18: a resolve in loading moves the Resource to success, stores the
\* payload, and leaves the error message absent.
C18_ResolveStoresPayload ==
    [][(OwnSettle /\ lastEvent' = "resolve")
          => /\ ~loading'
             /\ user' = Def(UserRecord)
             /\ error' = Null]_vars

\* C18 witness: the payload is stored and no message is set.
C18_Witness ==
    /\ mounted
    /\ lastEvent = "resolve"
    /\ user = Def(UserRecord)
    /\ error = Null
    /\ ~loading

\* C19: Try Again in the error state gives a fresh Resource (another
\* instance) that is loading with payload and message absent, and the
\* fetch that follows issues a new request for it.
C19_RetryRestarts ==
    [][/\ lastEvent' = "retry"
          => /\ Status = "error"
             /\ inst' # inst
             /\ loading' /\ user' = Null /\ error' = Null
             /\ effectPending'
       /\ lastEvent' = "effect"
          => \E r \in inflight' : r \notin inflight /\ r.gen = inst']_vars

\* C19 witness: Try Again has just been clicked: the Resource is loading
\* again with nothing populated, and its fetch is about to be issued.
C19_Witness ==
    /\ lastEvent = "retry"
    /\ mounted
    /\ Status = "loading"
    /\ user = Null /\ error = Null
    /\ effectPending
    /\ calls > 0

\* C20: the number of external calls equals the number of runs of
\* fetchUser (one per mount or retry): no call is issued on its own.
C20_OneCallPerStart ==
    /\ calls = starts
    /\ starts = IF effectPending THEN inst - 1 ELSE inst

\* C20 witness: a call has failed, and no further call was issued.
C20_Witness ==
    /\ lastEvent = "reject"
    /\ Status = "error"
    /\ calls = 1
    /\ inflight = {}

\* ------------------------------------------------- claims: counter screen
\* A step in which a handler of the counter is called.
HandlerCall == nCalls' # nCalls

\* The count cell after n calls of one handler of the render on the
\* screen, issued before the screen re-renders: every call hands setCount
\* the same value w, and the cell holds the value written last.
RECURSIVE CellAfterCalls(_, _, _)
CellAfterCalls(c, w, n) ==
    IF n = 0 THEN c ELSE CellAfterCalls(w, w, n - 1)

StepLaws ==
    HandlerCall =>
        /\ (lastCall'.op = "setStep" /\ lastCall'.value # NaN
                /\ ValueOf(lastCall'.value) > 0)
              => step' = ValueOf(lastCall'.value)
        /\ (lastCall'.op = "setStep"
                /\ (lastCall'.value = NaN \/ ValueOf(lastCall'.value) <= 0))
              => step' = Num(1)
        /\ lastCall'.op = "resetAll" => step' = Num(1)

\* C26 as stated: the step is at least 1 in every reachable state: it
\* starts at 5, setStep(n) stores n when n > 0 and 1 for every other
\* input, and reset(true) stores 1.
C26_StepAtLeastOne ==
    /\ step = Num(5)
    /\ [](step >= Num(1))
    /\ [][StepLaws]_vars

\* C26 as amended: the step is greater than 0 in every reachable state:
\* it starts at 5, setStep(n) stores n when n > 0 and 1 for every other
\* input (zero, negative, NaN), and reset(true) stores 1.
C26_StepPositive ==
    /\ step = Num(5)
    /\ [](step > 0)
    /\ [][StepLaws]_vars

\* C26 witness: setStep has stored a positive number below 1.
C26_Witness ==
    /\ lastCall.op = "setStep"
    /\ lastCall.value = Number(step)
    /\ step > 0
    /\ step < Num(1)

\* C27: reset always sets the count to 0; reset() leaves the step as it
\* is and reset(true) sets it to 1; increment and decrement leave the
\* step as it is, and setStep leaves the count as it is.
C27_ResetAndFrames ==
    [][HandlerCall =>
          /\ lastCall'.op \in {"reset", "resetAll"} => count' = Num(0)
          /\ lastCall'.op = "reset" => step' = step
          /\ lastCall'.op = "resetAll" => step' = Num(1)
          /\ lastCall'.op \in {"increment", "decrement"} => step' = step
          /\ lastCall'.op = "setStep" => count' = count]_vars

\* C27 witness: reset() has just been called, after two other calls, on
\* a counter whose step was set to something other than 1: the count is 0
\* and the step is kept.
C27_Witness ==
    /\ lastCall.op = "reset"
    /\ nCalls > 2
    /\ count = Num(0)
    /\ shown.count = Num(0)
    /\ step # Num(1)
    /\ step # InitialStep

\* ---------------------------------------------------- claims: list screen
\* C22: every record of the store has the Record shape: its id is the key
\* it is stored under, its text is a non-empty string equal to its own
\* trim, and its completed flag is a boolean.
C22_RecordShape ==
    \A i \in 1..Len(Store) :
        Store[i].value # Undefined =>
            LET t == TheTodo(Store[i].value)
            IN  /\ t.id = Store[i].key
                /\ t.text \in Strings
                /\ t.text # <<>>
                /\ Trim(t.text) = t.text
                /\ t.completed \in BOOLEAN

\* C22 witness: create, toggle and delete have all acted: next to a
\* deleted key the store holds a completed record.
C22_Witness ==
    /\ Len(Store) = 2
    /\ nDeleted = 1
    /\ \E i \in 1..Len(Store) :
          /\ Store[i].value # Undefined
          /\ TheTodo(Store[i].value).completed

\* The records of o other than the one under id, in the order the list
\* iteration (Object.values) yields them; the items of a screen other than
\* the one of id, from top to bottom.
OtherRecords(o, id) == RecordsOf(SelectSeq(o, LAMBDA e : e.key # id))
OtherItems(items, id) == SelectSeq(items, LAMBDA t : t.id # id)

\* C25: toggleTodo(id) and deleteTodo(id) leave every other record with
\* its id, text and completed flag, and the other records in the order
\* they had, in the store's listing and on the screen for as long as the
\* screen shows the list.
C25_OthersUntouched ==
    [][\A id \in RenderedIds :
          (ToggleTodo(id) \/ DeleteTodo(id))
              => /\ OtherRecords(heap'[todoList'], id) = OtherRecords(Store, id)
                 /\ fault' # "render"
                      => OtherItems(rendered'.items, id) = OtherItems(rendered.items, id)]_vars

\* C25 witness: the middle one of three records has been toggled: the
\* store holds it with the flag flipped, between the two others.
C25_Witness ==
    /\ lastOp = "toggle"
    /\ Len(RecordsOf(Store)) = 3
    /\ Len(rendered.items) = 3
    /\ RecordsOf(Store)[2].completed # rendered.items[2].completed
    /\ RecordsOf(Store)[1] = rendered.items[1]
    /\ RecordsOf(Store)[3] = rendered.items[3]

\* C28: the placeholder of the list screen is on the screen exactly when
\* the store holds no records, also after every record that was created
\* has been deleted.
C28_PlaceholderIffEmpty ==
    rendered.placeholder <=> (Len(RecordsOf(Store)) = 0)

\* ------------------------------------------- claims: profile screen, II
\* C23: the Resource is created idle and is loading only once fetchUser
\* has been started for it: while the start of a mounted screen is still
\* to come, its status is idle.
C23_IdleUntilStart ==
    (mounted /\ effectPending) => Status = "idle"

\* C24: in no state, the states between the writes of one completion
\* included, is loading true while an error message is set, or a payload
\* set together with an error message.
C24_NoIllegalFlags ==
    /\ ~(loading /\ error # Null)
    /\ ~(user # Null /\ error # Null)

\* C29: the view shows the user's fields only when loading is false, no
\* error message is set and the payload is present; while loading the
\* view is the loading view, whatever else is set, and with an error
\* message and loading false it is the error view.
C29_DetailsOnlyInSuccess ==
    /\ ProfileView(Cells).fields => (~loading /\ error = Null /\ user # Null)
    /\ loading => ProfileView(Cells).view = "loading"
    /\ (~loading /\ error # Null) => ProfileView(Cells).view = "error"

\* C29 witness: the details are on the screen, with the user's fields.
C29_Witness ==
    /\ mounted
    /\ ProfileView(Cells) = [view |-> "details", fields |-> TRUE]
    /\ user = Def(UserRecord)

====
